---- MODULE Spec2Model ----
(***************************************************************************)
(* A state-machine model of egui-selectable-table: the row store, the      *)
(* sorted display snapshot with its reverse index, the click / drag        *)
(* selection state machine and the auto-reload counter.                    *)
(*                                                                         *)
(* Conventions.                                                            *)
(*  - Option<T> is a sequence of length at most one: None is <<>> and      *)
(*    Some(x) is <<x>>.                                                    *)
(*  - Indices into Vec values are 0-based as in the source; At(s, i) reads *)
(*    element i of a sequence.                                             *)
(*  - Every method of SelectableTable is an operator from a table record   *)
(*    to a table record.  A Rust panic (a failed expect) sets the field    *)
(*    fault; a faulted table takes no further step.                        *)
(***************************************************************************)
EXTENDS Integers, Sequences, FiniteSets, TLC

\* ------------------------------------------------------------ bounds ----
\* most rows the store holds at once
MaxRows == 3
\* most rows the store holds where every modifier and selection call is explored
MaxRowsCtrl == 2
\* most identities the store issues in one run
MaxId == 3
\* most calls of add_modify_row counted while no reload resets the counter
MaxCount == 3
\* most rows the store holds where copying is explored
MaxRowsCopy == 2
\* most rows the store holds where the auto-scroll controller is explored
MaxRowsScroll == 1
\* the scroll offset (in hundredths of a pixel) past which no further
\* auto-scroll step is explored
MaxOffset == 6000
\* the bits of the mutation counter that are kept: reload_count is a u32,
\* and its last value is reached here after 2^CounterBits - 1 counted calls
CounterBits == 3

\* ------------------------------------------------------------ inputs ----
\* the fixed column list given to SelectableTable::new
all_columns == <<"A", "B", "C">>
\* the payloads a row may carry
RowData == {0, 1}
\* the thresholds the host configures with set_auto_reload
Thresholds == {<<>>, <<0>>, <<1>>, <<2>>}

None == <<>>
Some(x) == <<x>>
IsSome(o) == o # <<>>
Unwrap(o) == o[1]
At(s, i) == s[i + 1]
AllCols == {all_columns[i] : i \in 1..Len(all_columns)}
Range(s) == {s[i] : i \in 1..Len(s)}
Perms(S) == {p \in [1..Cardinality(S) -> S] : Range(p) = S}
NoMap == [x \in {} |-> 0]
\* F at the value of x: x is computed once, as a local binding is
Bind(x, F(_)) == CHOOSE r \in {F(v) : v \in {x}} : TRUE

\* ------------------------------------------------------- auto-scroll ----
\* Lengths on the screen are whole pixels; a scroll offset is a whole number
\* of hundredths of a pixel, which holds max_speed * (distance / 100) exactly.
\* A pointer coordinate is [nan, y]: an f32 that is NaN or the number y.
\* AutoScroll::default, lines 25-35
distance_from_min_default == 200
distance_from_max_default == 120
max_speed_default == 30

AutoScroll_default ==
    [scroll_offset |-> 0, enabled |-> FALSE,
     distance_from_min |-> distance_from_min_default,
     distance_from_max |-> distance_from_max_default,
     max_speed |-> max_speed_default]

\* AutoScroll::new(enabled).max_speed(speed)
AutoScroll_new(enabled, speed) ==
    [AutoScroll_default EXCEPT !.enabled = enabled, !.max_speed = speed]

\* f32::clamp on whole numbers
clamp(x, lo, hi) == IF x < lo THEN lo ELSE IF x > hi THEN hi ELSE x

\* a faulty speed that grows with the distance without a cap
speed_factor_unclamped(max_speed, distance) == max_speed * distance

\* line 152, in hundredths of a pixel:
\* max_speed * (distance / 100.0).clamp(0.1, 1.0)
speed_factor(max_speed, distance) == max_speed * clamp(distance, 10, 100)

\* a faulty step that keeps an offset below zero
scrolled_unclamped(a, direction, distance) ==
    [a EXCEPT !.scroll_offset =
        @ + direction * speed_factor(a.max_speed, distance)]

\* lines 154-159: the offset moves by direction * speed_factor and is
\* raised to zero when it fell below
scrolled(a, direction, distance) ==
    LET moved == a.scroll_offset + direction * speed_factor(a.max_speed, distance)
    IN  [a EXCEPT !.scroll_offset = IF moved < 0 THEN 0 ELSE moved]

\* the pointer lies above min_y, below max_y: a comparison with NaN is false
above_y(pointer_y, min_y) == ~pointer_y.nan /\ pointer_y.y < min_y
below_y(pointer_y, max_y) == ~pointer_y.nan /\ pointer_y.y > max_y
within_y(pointer_y, min_y, max_y) ==
    ~pointer_y.nan /\ pointer_y.y >= min_y /\ pointer_y.y <= max_y

\* start_scroll once enabled is known to hold, lines 117-164; the result is
\* <<the controller afterwards, the returned Option<f32>>>
start_scroll_enabled(a, max_rect, pointer) ==
    IF ~IsSome(pointer) THEN <<a, None>>
    ELSE LET pointer_y == Unwrap(pointer)
             min_y == max_rect.min_y + a.distance_from_min
             max_y == max_rect.max_y - a.distance_from_max
         IN  IF within_y(pointer_y, min_y, max_y) THEN <<a, None>>
             ELSE IF above_y(pointer_y, min_y)
             THEN Bind(scrolled(a, -1, min_y - pointer_y.y), LAMBDA b :
                       <<b, Some(b.scroll_offset)>>)
             ELSE IF below_y(pointer_y, max_y)
             THEN Bind(scrolled(a, 1, pointer_y.y - max_y), LAMBDA b :
                       <<b, Some(b.scroll_offset)>>)
             ELSE <<a, None>>

\* a faulty start_scroll that never looks at enabled
start_scroll_always(a, max_rect, pointer) ==
    start_scroll_enabled(a, max_rect, pointer)

\* AutoScroll::start_scroll, lines 112-165
start_scroll(a, max_rect, pointer) ==
    IF ~a.enabled THEN <<a, None>>
    ELSE start_scroll_enabled(a, max_rect, pointer)

\* ------------------------------------------------------------- state ----
VARIABLES
    rows,               \* HashMap<i64, SelectableRow>: the row store
    hash_order,         \* the order in which the store's HashMap iterates
    formatted_rows,     \* Vec<SelectableRow>: the display snapshot
    indexed_ids,        \* HashMap<i64, usize>: identity -> snapshot index
    sorted_by,
    sort_order,
    drag_started_on,    \* Option<(i64, F)>
    active_columns,
    active_rows,
    last_active_row,    \* Option<i64>
    last_active_column, \* Option<F>
    beyond_drag_point,
    last_id_used,
    reload_after,       \* Option<u32>
    reload_count,
    select_full_row,
    fault,              \* a panic was raised
    table_rows,         \* the identities of the rows cloned by rows() for the frame being drawn
    auto_scroll,        \* AutoScroll: the auto-scroll controller of the table
    returned,           \* Option: what the last operation handed to the host
    op                  \* history: the operation that produced this state

vars == <<rows, hash_order, formatted_rows, indexed_ids, sorted_by, sort_order,
          drag_started_on, active_columns, active_rows, last_active_row,
          last_active_column, beyond_drag_point, last_id_used, reload_after,
          reload_count, select_full_row, fault, table_rows, auto_scroll,
          returned, op>>

\* the table as one record, so that methods compose as in the source
Table ==
    [rows |-> rows, hash_order |-> hash_order, formatted_rows |-> formatted_rows,
     indexed_ids |-> indexed_ids, sorted_by |-> sorted_by, sort_order |-> sort_order,
     drag_started_on |-> drag_started_on, active_columns |-> active_columns,
     active_rows |-> active_rows, last_active_row |-> last_active_row,
     last_active_column |-> last_active_column,
     beyond_drag_point |-> beyond_drag_point, last_id_used |-> last_id_used,
     reload_after |-> reload_after, reload_count |-> reload_count,
     select_full_row |-> select_full_row, fault |-> fault]

Commit(table) ==
    \E t \in {table} :
    /\ rows' = t.rows
    /\ hash_order' = t.hash_order
    /\ formatted_rows' = t.formatted_rows
    /\ indexed_ids' = t.indexed_ids
    /\ sorted_by' = t.sorted_by
    /\ sort_order' = t.sort_order
    /\ drag_started_on' = t.drag_started_on
    /\ active_columns' = t.active_columns
    /\ active_rows' = t.active_rows
    /\ last_active_row' = t.last_active_row
    /\ last_active_column' = t.last_active_column
    /\ beyond_drag_point' = t.beyond_drag_point
    /\ last_id_used' = t.last_id_used
    /\ reload_after' = t.reload_after
    /\ reload_count' = t.reload_count
    /\ select_full_row' = t.select_full_row
    /\ fault' = t.fault

\* a failed expect(): the call unwinds
Panic(t) == [t EXCEPT !.fault = TRUE]

\* SelectableTable::new
new ==
    [rows |-> NoMap, hash_order |-> <<>>, formatted_rows |-> <<>>,
     indexed_ids |-> NoMap, sorted_by |-> all_columns[1], sort_order |-> "Ascending",
     drag_started_on |-> None, active_columns |-> {}, active_rows |-> {},
     last_active_row |-> None, last_active_column |-> None,
     beyond_drag_point |-> FALSE, last_id_used |-> 0,
     reload_after |-> None, reload_count |-> 0,
     select_full_row |-> FALSE, fault |-> FALSE]

\* ---------------------------------------------------------- columns ----
column_to_num(column) == CHOOSE i \in 0..(Len(all_columns) - 1) : At(all_columns, i) = column

first_column == At(all_columns, 0)

last_column == At(all_columns, Len(all_columns) - 1)

\* a faulty next_column that walks towards the first column
next_column_backwards(column) ==
    LET current_column_num == column_to_num(column)
    IN  IF current_column_num = 0
        THEN At(all_columns, Len(all_columns) - 1)
        ELSE At(all_columns, current_column_num - 1)

next_column(column) ==
    LET current_column_num == column_to_num(column)
    IN  IF current_column_num = Len(all_columns) - 1
        THEN At(all_columns, 0)
        ELSE At(all_columns, current_column_num + 1)

previous_column(column) ==
    LET current_column_num == column_to_num(column)
    IN  IF current_column_num = 0
        THEN At(all_columns, Len(all_columns) - 1)
        ELSE At(all_columns, current_column_num - 1)

\* ------------------------------------------------------------- sort ----
\* the host's ColumnOrdering::order_by: column A orders by the payload,
\* column B by the payload reversed, column C by the payload halved, which ties all
ColumnKey(column, data) ==
    CASE column = "A" -> data
      [] column = "B" -> 0 - data
      [] OTHER -> data \div 2

order_by(column, row_1, row_2) ==
    LET k1 == ColumnKey(column, row_1)
        k2 == ColumnKey(column, row_2)
    IN  IF k1 < k2 THEN "Less" ELSE IF k1 > k2 THEN "Greater" ELSE "Equal"

\* a faulty Ordering::reverse that reverses nothing
reverse_kept(ordering) == ordering

\* Ordering::reverse
reverse(ordering) ==
    CASE ordering = "Less" -> "Greater"
      [] ordering = "Greater" -> "Less"
      [] OTHER -> "Equal"

\* the closure given to par_sort_by
compare_rows(t, a, b) ==
    LET ordering == order_by(t.sorted_by, a.row_data, b.row_data)
    IN  IF t.sort_order = "Ascending" THEN ordering ELSE reverse(ordering)

\* one step of a stable sort: x goes after every element that is not greater
RECURSIVE insert_sorted(_, _, _)
insert_sorted(t, sorted, x) ==
    Bind(sorted, LAMBDA s :
    IF s = <<>> THEN <<x>>
    ELSE IF compare_rows(t, s[Len(s)], x) = "Greater"
         THEN Append(insert_sorted(t, SubSeq(s, 1, Len(s) - 1), x), s[Len(s)])
         ELSE Append(s, x))

\* par_sort_by: a stable sort
RECURSIVE par_sort_by(_, _)
par_sort_by(t, s) ==
    IF s = <<>> THEN <<>>
    ELSE insert_sorted(t, par_sort_by(t, SubSeq(s, 1, Len(s) - 1)), s[Len(s)])

\* a faulty sort_rows over a map whose iteration order flips once an index
\* exists
sort_rows_flipped(t) ==
    LET order == IF DOMAIN t.indexed_ids = {} THEN t.hash_order
                 ELSE [i \in 1..Len(t.hash_order) |->
                          t.hash_order[Len(t.hash_order) + 1 - i]]
        row_data == par_sort_by(t, [i \in 1..Len(order) |-> t.rows[order[i]]])
    IN  [t EXCEPT !.formatted_rows = row_data,
                  !.indexed_ids = [id \in Range(order) |->
                        (CHOOSE i \in 1..Len(row_data) : row_data[i].id = id) - 1]]

\* a faulty sort_rows whose reverse index counts positions from one
sort_rows_one_based(t) ==
    LET row_data == par_sort_by(t, [i \in 1..Len(t.hash_order) |-> t.rows[t.hash_order[i]]])
    IN  [t EXCEPT !.formatted_rows = row_data,
                  !.indexed_ids = [id \in Range(t.hash_order) |->
                        CHOOSE i \in 1..Len(row_data) : row_data[i].id = id]]

\* a faulty sort_rows that keeps the payload the snapshot already shows for
\* a row
sort_rows_keeping_shown(t) ==
    LET shown(row) ==
            IF \E i \in 1..Len(t.formatted_rows) : t.formatted_rows[i].id = row.id
            THEN [row EXCEPT !.row_data =
                     (CHOOSE old \in Range(t.formatted_rows) : old.id = row.id).row_data]
            ELSE row
        row_data == par_sort_by(t, [i \in 1..Len(t.hash_order) |->
                                       shown(t.rows[t.hash_order[i]])])
    IN  [t EXCEPT !.formatted_rows = row_data,
                  !.indexed_ids = [id \in Range(t.hash_order) |->
                        (CHOOSE i \in 1..Len(row_data) : row_data[i].id = id) - 1]]

sort_rows(t) ==
    Bind(par_sort_by(t, [i \in 1..Len(t.hash_order) |-> t.rows[t.hash_order[i]]]),
         LAMBDA row_data :
    LET indexed_data == [id \in {row_data[i].id : i \in 1..Len(row_data)} |->
                            (CHOOSE i \in 1..Len(row_data) : row_data[i].id = id) - 1]
    IN  [t EXCEPT !.indexed_ids = indexed_data, !.formatted_rows = row_data])

\* a faulty rows(): rebuilds only an empty snapshot
rows_when_empty(table) ==
    IF table.formatted_rows = <<>> THEN sort_rows(table) ELSE table

\* rows(): rebuilds the snapshot when its length differs from the store's
rows_access(table) ==
    Bind(table, LAMBDA t :
    IF Len(t.formatted_rows) # Cardinality(DOMAIN t.rows) THEN sort_rows(t) ELSE t)


\* -------------------------------------------------------- selection ----
\* the selected columns a drag gives a row: clone_from(active_columns), or
\* extend(all_columns) in select-full-row mode
drag_columns(t, selected_columns) ==
    IF t.select_full_row THEN selected_columns \cup AllCols ELSE t.active_columns

select_single_row_cell(table, id, column_name) ==
    Bind(table, LAMBDA t :
    LET t1 == [t EXCEPT !.active_columns = @ \cup {column_name},
                        !.active_rows = @ \cup {id}]
    IN  IF id \notin DOMAIN t1.indexed_ids THEN Panic(t1)
        ELSE LET target_index == t1.indexed_ids[id]
             IN  IF target_index >= Len(t1.formatted_rows) THEN Panic(t1)
                 ELSE IF t1.select_full_row
                      THEN [t1 EXCEPT !.active_columns = @ \cup AllCols,
                                      !.formatted_rows[target_index + 1].selected_columns =
                                          @ \cup AllCols]
                      ELSE [t1 EXCEPT !.formatted_rows[target_index + 1].selected_columns =
                                          @ \cup {column_name}])

\* the while loop of select_dragged_row_cell: the columns from the drag
\* origin's column to column_name, walking next_column when the current
\* column lies after the origin and previous_column otherwise
RECURSIVE column_span(_, _, _, _)
column_span(col, column_name, get_previous, new_column_set) ==
    LET next == IF get_previous THEN next_column(col) ELSE previous_column(col)
    IN  IF next = column_name
        THEN new_column_set \cup {col, next}
        ELSE column_span(next, column_name, get_previous, new_column_set \cup {col})

RECURSIVE check_row_selection(_, _, _, _)
check_row_selection(table, check_previous, index0, drag_start) ==
    Bind(table, LAMBDA t :
    IF t.fault THEN t
    ELSE IF index0 = 0 /\ check_previous THEN t
    ELSE IF index0 + 1 = Len(t.formatted_rows) /\ ~check_previous THEN t
    ELSE
        LET index == IF check_previous THEN index0 - 1 ELSE index0 + 1
        IN  IF index < 0 \/ index >= Len(t.formatted_rows) THEN Panic(t)
            ELSE
            LET current_row == At(t.formatted_rows, index)
                unselected_row ==
                    IF (check_previous /\ index >= drag_start)
                        \/ (~check_previous /\ index <= drag_start)
                    THEN FALSE
                    ELSE current_row.selected_columns = {}
                t1 == [t EXCEPT !.formatted_rows[index + 1].selected_columns =
                                    drag_columns(t, @),
                                !.active_rows = @ \cup {current_row.id}]
            IN  IF unselected_row THEN t
                ELSE IF check_previous
                     THEN IF index # 0
                          THEN check_row_selection(t1, check_previous, index, drag_start)
                          ELSE t1
                     ELSE IF index + 1 # Len(t.formatted_rows)
                          THEN check_row_selection(t1, check_previous, index, drag_start)
                          ELSE t1)

\* whether the snapshot index lies between the drag origin and the pointer
in_drag_range(ongoing_index, current_index, drag_start) ==
    IF current_index > drag_start
    THEN ongoing_index >= drag_start /\ ongoing_index <= current_index
    ELSE ongoing_index <= drag_start /\ ongoing_index >= current_index

\* the loop over a clone of active_rows; each identity touches only the row
\* its index names, so the iteration order of the set does not matter
remove_row_selection(table, current_index, drag_start, is_ctrl_pressed) ==
    Bind(table, LAMBDA t :
    IF t.fault THEN t
    ELSE IF \E id \in t.active_rows :
                \/ id \notin DOMAIN t.indexed_ids
                \/ t.indexed_ids[id] >= Len(t.formatted_rows)
    THEN Panic(t)
    ELSE
        LET touched == {t.indexed_ids[id] : id \in t.active_rows}
            dropped == {i \in touched :
                            /\ ~in_drag_range(i, current_index, drag_start)
                            /\ ~is_ctrl_pressed}
        IN  [t EXCEPT
                !.formatted_rows =
                    [i \in 1..Len(t.formatted_rows) |->
                        IF (i - 1) \notin touched THEN t.formatted_rows[i]
                        ELSE IF in_drag_range(i - 1, current_index, drag_start)
                        THEN [t.formatted_rows[i] EXCEPT !.selected_columns =
                                  drag_columns(t, @)]
                        ELSE IF ~is_ctrl_pressed
                        THEN [t.formatted_rows[i] EXCEPT !.selected_columns = {}]
                        ELSE t.formatted_rows[i]],
                !.active_rows = @ \ {At(t.formatted_rows, i).id : i \in dropped}])

\* select_dragged_row_cell, lines 64-113: the active columns of the drag
drag_active_columns(t, column_name, is_ctrl_pressed) ==
    LET drag_start == Unwrap(t.drag_started_on)
        drag_start_num == column_to_num(drag_start[2])
        ongoing_column_num == column_to_num(column_name)
        get_previous == ongoing_column_num > drag_start_num
    IN  [t EXCEPT
            !.beyond_drag_point = TRUE,
            !.active_columns =
                IF is_ctrl_pressed THEN @ \cup {column_name}
                ELSE IF ongoing_column_num = drag_start_num THEN {drag_start[2]}
                ELSE column_span(drag_start[2], column_name, get_previous, {})]

\* lines 132-139: the row under the pointer already selects the column and
\* the last cell the pointer was on is known
seen_before(t, id, column_name) ==
    /\ column_name \in At(t.formatted_rows, t.indexed_ids[id]).selected_columns
    /\ IsSome(t.last_active_row)
    /\ IsSome(t.last_active_column)

\* lines 151-154: back on the same row, on another column
drag_same_row(t, id, column_name) ==
    LET last_column_seen == Unwrap(t.last_active_column)
    IN  IF last_column_seen # column_name /\ Unwrap(t.last_active_row) = id
        THEN [t EXCEPT
                !.formatted_rows[t.indexed_ids[id] + 1].selected_columns =
                    @ \ {last_column_seen},
                !.active_columns = @ \ {last_column_seen}]
        ELSE t

\* lines 156-177: the row the pointer was on last
drag_last_row(table, id, column_name) ==
    Bind(table, LAMBDA t :
    LET last_column_seen == Unwrap(t.last_active_column)
        last_row_seen == Unwrap(t.last_active_row)
    IN  IF last_row_seen \notin DOMAIN t.indexed_ids THEN Panic(t)
        ELSE IF t.indexed_ids[last_row_seen] >= Len(t.formatted_rows) THEN Panic(t)
        ELSE IF id = At(t.formatted_rows, t.indexed_ids[last_row_seen]).id
             THEN IF last_column_seen # column_name
                  THEN [t EXCEPT !.last_active_row = Some(id),
                                 !.last_active_column = Some(column_name)]
                  ELSE [t EXCEPT !.last_active_row = Some(id)]
             ELSE [t EXCEPT
                     !.last_active_row = Some(id),
                     !.formatted_rows[t.indexed_ids[last_row_seen] + 1].selected_columns
                         = {}])

\* lines 179-187: a row not selected before
drag_new_row(t, id, column_name) ==
    [t EXCEPT
        !.active_rows = @ \cup {At(t.formatted_rows, t.indexed_ids[id]).id},
        !.last_active_row = Some(id),
        !.last_active_column = Some(column_name),
        !.formatted_rows[t.indexed_ids[id] + 1].selected_columns = t.active_columns]

\* the local no_checking, set at line 174: the pointer came from another row
no_checking(t, id, column_name) ==
    /\ seen_before(t, id, column_name)
    /\ Unwrap(t.last_active_row) \in DOMAIN t.indexed_ids
    /\ t.indexed_ids[Unwrap(t.last_active_row)] < Len(t.formatted_rows)
    /\ id # At(t.formatted_rows, t.indexed_ids[Unwrap(t.last_active_row)]).id

\* lines 188-209: the rows between the drag origin and the pointer
drag_rows(table, skip, id, is_ctrl_pressed) ==
    Bind(table, LAMBDA t :
    IF t.fault THEN t
    ELSE IF Unwrap(t.drag_started_on)[1] \notin DOMAIN t.indexed_ids THEN Panic(t)
    ELSE
    LET current_row_index == t.indexed_ids[id]
        drag_start_index == t.indexed_ids[Unwrap(t.drag_started_on)[1]]
    IN  remove_row_selection(
            IF skip THEN t
            ELSE check_row_selection(
                     check_row_selection(t, TRUE, current_row_index, drag_start_index),
                     FALSE, current_row_index, drag_start_index),
            current_row_index, drag_start_index, is_ctrl_pressed))

select_dragged_row_cell(table, id, column_name, is_ctrl_pressed) ==
    Bind(table, LAMBDA t :
    IF t.last_active_row = Some(id) /\ t.last_active_column = Some(column_name) THEN t
    ELSE IF t.formatted_rows = <<>> THEN t
    ELSE IF ~IsSome(t.drag_started_on) THEN Panic(t)
    ELSE Bind(drag_active_columns(t, column_name, is_ctrl_pressed), LAMBDA t1 :
         IF id \notin DOMAIN t1.indexed_ids THEN Panic(t1)
         ELSE IF t1.indexed_ids[id] >= Len(t1.formatted_rows) THEN Panic(t1)
         ELSE drag_rows(IF seen_before(t1, id, column_name)
                        THEN drag_last_row(drag_same_row(t1, id, column_name),
                                           id, column_name)
                        ELSE drag_new_row(t1, id, column_name),
                        no_checking(t1, id, column_name), id, is_ctrl_pressed)))

\* a faulty unselect_all that forgets the last-touched column
unselect_all_keeping_column(table) ==
    Bind(table, LAMBDA t :
    IF \E id \in t.active_rows :
            \/ id \notin DOMAIN t.indexed_ids
            \/ t.indexed_ids[id] >= Len(t.formatted_rows)
    THEN Panic(t)
    ELSE [t EXCEPT
            !.formatted_rows =
                [i \in 1..Len(t.formatted_rows) |->
                    IF \E id \in t.active_rows : t.indexed_ids[id] = i - 1
                    THEN [t.formatted_rows[i] EXCEPT !.selected_columns = {}]
                    ELSE t.formatted_rows[i]],
            !.active_columns = {},
            !.last_active_row = None,
            !.active_rows = {}])

unselect_all(table) ==
    Bind(table, LAMBDA t :
    IF \E id \in t.active_rows :
            \/ id \notin DOMAIN t.indexed_ids
            \/ t.indexed_ids[id] >= Len(t.formatted_rows)
    THEN Panic(t)
    ELSE [t EXCEPT
            !.formatted_rows =
                [i \in 1..Len(t.formatted_rows) |->
                    IF \E id \in t.active_rows : t.indexed_ids[id] = i - 1
                    THEN [t.formatted_rows[i] EXCEPT !.selected_columns = {}]
                    ELSE t.formatted_rows[i]],
            !.active_columns = {},
            !.last_active_row = None,
            !.last_active_column = None,
            !.active_rows = {}])

\* a faulty select_all that does not record the rows it selects
select_all_untracked(table) ==
    [table EXCEPT
        !.formatted_rows =
            [i \in 1..Len(table.formatted_rows) |->
                [table.formatted_rows[i] EXCEPT !.selected_columns = @ \cup AllCols]],
        !.active_columns = @ \cup AllCols,
        !.last_active_row = None,
        !.last_active_column = None]

select_all(table) ==
    Bind(table, LAMBDA t :
    [t EXCEPT
        !.formatted_rows =
            [i \in 1..Len(t.formatted_rows) |->
                [t.formatted_rows[i] EXCEPT !.selected_columns = @ \cup AllCols]],
        !.active_columns = @ \cup AllCols,
        !.active_rows = @ \cup {t.formatted_rows[i].id : i \in 1..Len(t.formatted_rows)},
        !.last_active_row = None,
        !.last_active_column = None])

\* ------------------------------------------------------------ table ----
\* a faulty recreate_rows that keeps the active-column set
recreate_rows_keeping_columns(t) ==
    [t EXCEPT !.formatted_rows = <<>>, !.active_rows = {}]

recreate_rows(t) ==
    [t EXCEPT !.formatted_rows = <<>>, !.active_rows = {}, !.active_columns = {}]

\* a faulty clear_all_rows that also restarts the identity counter
clear_all_rows_resetting(t) ==
    [t EXCEPT !.rows = NoMap, !.hash_order = <<>>, !.formatted_rows = <<>>,
              !.active_rows = {}, !.active_columns = {}, !.last_id_used = 0]

\* a faulty clear_all_rows that forgets the active-row set
clear_all_rows_keeping_active(t) ==
    [t EXCEPT !.rows = NoMap, !.hash_order = <<>>, !.formatted_rows = <<>>,
              !.active_columns = {}]

clear_all_rows(t) ==
    [t EXCEPT !.rows = NoMap, !.hash_order = <<>>, !.formatted_rows = <<>>,
              !.active_rows = {}, !.active_columns = {}]

\* a faulty change_sort_order that always ends Descending
change_sort_order_stuck(t) ==
    LET t1 == unselect_all(t)
    IN  IF t1.fault THEN t1 ELSE [t1 EXCEPT !.sort_order = "Descending"]

change_sort_order(t) ==
    LET t1 == unselect_all(t)
    IN  IF t1.fault THEN t1
        ELSE [t1 EXCEPT !.sort_order =
                 IF @ = "Ascending" THEN "Descending" ELSE "Ascending"]

\* a faulty change_sorted_by that keeps the direction it finds
change_sorted_by_keeping_order(t, sort_by) ==
    LET t1 == unselect_all(t)
    IN  IF t1.fault THEN t1
        ELSE [t1 EXCEPT !.sorted_by = sort_by]

change_sorted_by(t, sort_by) ==
    LET t1 == unselect_all(t)
    IN  IF t1.fault THEN t1
        ELSE [t1 EXCEPT !.sorted_by = sort_by, !.sort_order = "Ascending"]

\* show_ui, lines 338-346: the header of column_name was clicked
header_clicked(t, column_name) ==
    LET t1 == IF t.sorted_by = column_name
              THEN change_sort_order(t)
              ELSE change_sorted_by(t, column_name)
    IN  IF t1.fault THEN t1 ELSE recreate_rows(t1)

\* a faulty increment_count that never puts the counter back to zero
increment_count_counting_on(t) ==
    [t EXCEPT !.reload_count = @ + 1]

\* AutoReload::increment_count: the table after the call; the call returns
\* whether the counter reached the threshold
increment_count(t) ==
    LET t1 == [t EXCEPT !.reload_count = @ + 1]
    IN  IF IsSome(t1.reload_after) /\ t1.reload_count >= Unwrap(t1.reload_after)
        THEN [t1 EXCEPT !.reload_count = 0]
        ELSE t1

\* a faulty threshold test that asks for one call more
increment_count_late(t) ==
    IsSome(t.reload_after) /\ t.reload_count + 1 > Unwrap(t.reload_after)

\* a faulty threshold test that asks for a reload when no threshold is set
increment_count_unset(t) ==
    ~IsSome(t.reload_after) \/ t.reload_count + 1 >= Unwrap(t.reload_after)

\* what increment_count returns
increment_count_result(t) ==
    IsSome(t.reload_after) /\ t.reload_count + 1 >= Unwrap(t.reload_after)

set_auto_reload(t, count) ==
    [t EXCEPT !.reload_after = count, !.reload_count = 0]

set_select_full_row(t, status) ==
    [t EXCEPT !.select_full_row = status]

\* the store after the closure given to add_modify_row ran, and the payload
\* it returned.  A mutator inserts a row, changes a payload in place,
\* removes a row, or removes a row and returns a new one.
mutator_rows(t, m) ==
    CASE m.kind = "modify" -> [t.rows EXCEPT ![m.id].row_data = m.data]
      [] m.kind \in {"remove", "replace"} ->
            [id \in DOMAIN t.rows \ {m.id} |-> t.rows[id]]
      [] OTHER -> t.rows

mutator_result(m) ==
    IF m.kind \in {"insert", "replace"} THEN Some(m.data) ELSE None

\* removing from a HashMap leaves the other entries where they are
order_without(order, id) ==
    LET keep == {i \in 1..Len(order) : order[i] # id}
        nth(k) == CHOOSE i \in keep : Cardinality({j \in keep : j < i}) = k - 1
    IN  [k \in 1..Cardinality(keep) |-> order[nth(k)]]

\* add_modify_row; new_order is the iteration order of the store after an
\* insertion (an insertion may rehash the map)
add_modify_row(t, m, new_order) ==
    LET t1 == [t EXCEPT !.rows = mutator_rows(t, m),
                        !.hash_order = IF m.kind \in {"remove", "replace"}
                                       THEN order_without(@, m.id) ELSE @]
        new_row == mutator_result(m)
        t2 == IF IsSome(new_row)
              THEN [t1 EXCEPT
                      !.rows = [id \in DOMAIN t1.rows \cup {t1.last_id_used} |->
                                  IF id = t1.last_id_used
                                  THEN [row_data |-> Unwrap(new_row),
                                        id |-> t1.last_id_used,
                                        selected_columns |-> {}]
                                  ELSE t1.rows[id]],
                      !.hash_order = new_order,
                      !.last_id_used = @ + 1]
              ELSE t1
        reload == increment_count_result(t2)
        t3 == increment_count(t2)
    IN  IF reload THEN recreate_rows(t3) ELSE t3

\* the largest value of the mutation counter
u32_MAX == 2^CounterBits - 1

\* add_modify_row with the width of the counter: at u32_MAX the increment
\* of increment_count overflows, which panics in a build with overflow
\* checks (the store is changed by then) and wraps to zero in a build
\* without them
add_modify_row_u32(t, m, new_order, overflow_checks) ==
    IF t.reload_count < u32_MAX THEN add_modify_row(t, m, new_order)
    ELSE IF overflow_checks
    THEN Panic([add_modify_row(t, m, new_order) EXCEPT !.reload_count = t.reload_count])
    ELSE add_modify_row([t EXCEPT !.reload_count = @ - (u32_MAX + 1)], m, new_order)

\* handle_table_body, lines 501-510: a drag starts on the cell
cell_drag_started(t, row_id, column_name, ev) ==
    IF ev.drag_started
    THEN Bind(IF ~(ev.ctrl \/ ev.secondary) THEN unselect_all(t) ELSE t, LAMBDA u :
         IF u.fault THEN u
         ELSE [u EXCEPT !.drag_started_on = Some(<<row_id, column_name>>)])
    ELSE t

\* a faulty release that forgets the moved-beyond-origin flag
cell_pointer_released_sticky(t, ev) ==
    IF ev.pointer_released
    THEN [t EXCEPT !.last_active_row = None,
                   !.last_active_column = None,
                   !.drag_started_on = None]
    ELSE t

\* lines 512-519: the primary button was released
cell_pointer_released(t, ev) ==
    IF ev.pointer_released
    THEN [t EXCEPT !.last_active_row = None,
                   !.last_active_column = None,
                   !.drag_started_on = None,
                   !.beyond_drag_point = FALSE]
    ELSE t

\* a faulty click that never clears the selection first
cell_clicked_keeping(t, row_id, column_name, ev) ==
    IF ev.clicked THEN select_single_row_cell(t, row_id, column_name) ELSE t

\* lines 521-529: the cell was clicked
cell_clicked(t, row_id, column_name, ev) ==
    IF ev.clicked
    THEN Bind(IF ~(ev.ctrl \/ ev.secondary) THEN unselect_all(t) ELSE t, LAMBDA u :
         IF u.fault THEN u
         ELSE select_single_row_cell(u, row_id, column_name))
    ELSE t

\* handle_table_body, the closure run for the cell (row_id, column_name) of
\* the frame; ev holds what the host reports for the cell in this frame
handle_cell(table, row_id, column_name, ev) ==
    Bind(table, LAMBDA t :
    Bind(cell_drag_started(t, row_id, column_name, ev), LAMBDA t1 :
    IF t1.fault THEN t1
    ELSE Bind(cell_clicked(cell_pointer_released(t1, ev), row_id, column_name, ev),
              LAMBDA t3 :
         IF t3.fault THEN t3
         ELSE IF /\ ev.contains_pointer
                 /\ IsSome(t3.drag_started_on)
                 /\ \/ Unwrap(t3.drag_started_on)[1] # row_id
                    \/ Unwrap(t3.drag_started_on)[2] # column_name
                    \/ t3.beyond_drag_point
         THEN select_dragged_row_cell(t3, row_id, column_name, ev.ctrl)
         ELSE t3)))

NoEvent ==
    [drag_started |-> FALSE, pointer_released |-> FALSE, clicked |-> FALSE,
     contains_pointer |-> FALSE, ctrl |-> FALSE, secondary |-> FALSE]

\* ------------------------------------------------------------- copy ----
\* A text is the sequence of its characters.  The host's column_text: the
\* texts of a column differ in length from row to row, one text is empty and
\* one holds a character of two bytes, written by its code point
column_text(column, row_data) ==
    CASE column = "A" -> IF row_data = 0 THEN <<"a">> ELSE <<"b", "b", "b">>
      [] column = "B" -> IF row_data = 0 THEN <<"U+00E9">> ELSE <<"x", "y">>
      [] OTHER        -> IF row_data = 0 THEN <<>> ELSE <<"c">>

\* the bytes one character takes in a String
char_len(ch) == IF ch = "U+00E9" THEN 2 ELSE 1

\* String::len: the length in bytes
RECURSIVE str_len(_)
str_len(text) ==
    IF text = <<>> THEN 0 ELSE char_len(Head(text)) + str_len(Tail(text))

\* format!("{:<width$}", text): spaces are appended until the text has width
\* characters; a longer text is left whole
RECURSIVE format_left(_, _)
format_left(text, width) ==
    IF Len(text) >= width THEN text ELSE format_left(Append(text, " "), width)

\* lines 418-426: the longest length seen so far of every active column that
\* the row selects
note_lengths(t, row, column_max_length) ==
    LET seen == {column \in t.active_columns : column \in row.selected_columns}
        entry(column) == IF column \in DOMAIN column_max_length
                         THEN column_max_length[column] ELSE 0
        field_length(column) == str_len(column_text(column, row.row_data))
    IN  [column \in DOMAIN column_max_length \cup seen |->
            IF column \in seen /\ field_length(column) > entry(column)
            THEN field_length(column)
            ELSE entry(column)]

\* lines 413-432, the first loop from snapshot index i on: the rows with a
\* selected column and the longest lengths, until as many rows are collected
\* as the active-row set has members
RECURSIVE collect_selected(_, _, _, _)
collect_selected(t, i, selected_rows, column_max_length) ==
    IF i >= Len(t.formatted_rows)
    THEN [selected_rows |-> selected_rows, column_max_length |-> column_max_length]
    ELSE Bind(At(t.formatted_rows, i), LAMBDA row :
         IF row.selected_columns = {}
         THEN collect_selected(t, i + 1, selected_rows, column_max_length)
         ELSE IF Len(selected_rows) + 1 = Cardinality(t.active_rows)
         THEN [selected_rows |-> Append(selected_rows, row),
               column_max_length |-> note_lengths(t, row, column_max_length)]
         ELSE collect_selected(t, i + 1, Append(selected_rows, row),
                               note_lengths(t, row, column_max_length)))

\* lines 446-450 and 454-458: the field of a column, one wider than the
\* longest length
padded_field(text, column_max_length, ongoing_column) ==
    format_left(text, column_max_length[ongoing_column] + 1)

\* lines 441-464, the loop over the columns from ongoing_column on; the
\* result is None when indexing column_max_length fails
RECURSIVE row_text_from(_, _, _, _, _)
row_text_from(t, row, column_max_length, ongoing_column, row_text) ==
    IF ongoing_column \in t.active_columns
       /\ ongoing_column \notin DOMAIN column_max_length
    THEN None
    ELSE Bind(IF ongoing_column \notin t.active_columns THEN row_text
              ELSE IF ongoing_column \in row.selected_columns
              THEN row_text \o padded_field(column_text(ongoing_column, row.row_data),
                                            column_max_length, ongoing_column)
              ELSE row_text \o padded_field(<<>>, column_max_length, ongoing_column),
         LAMBDA text :
         IF last_column = ongoing_column THEN Some(text)
         ELSE row_text_from(t, row, column_max_length,
                            next_column(ongoing_column), text))

\* a faulty second loop that writes the rows last to first
RECURSIVE lines_reversed(_, _, _, _)
lines_reversed(t, selected_rows, column_max_length, to_copy) ==
    IF selected_rows = <<>> THEN Some(to_copy)
    ELSE Bind(row_text_from(t, selected_rows[Len(selected_rows)], column_max_length,
                            first_column, <<>>), LAMBDA row_text :
         IF row_text = None THEN None
         ELSE lines_reversed(t, SubSeq(selected_rows, 1, Len(selected_rows) - 1),
                             column_max_length,
                             to_copy \o Unwrap(row_text) \o <<"\n">>))

\* lines 438-467, the second loop: one line for every collected row
RECURSIVE lines_from(_, _, _, _)
lines_from(t, selected_rows, column_max_length, to_copy) ==
    IF selected_rows = <<>> THEN Some(to_copy)
    ELSE Bind(row_text_from(t, Head(selected_rows), column_max_length,
                            first_column, <<>>), LAMBDA row_text :
         IF row_text = None THEN None
         ELSE lines_from(t, Tail(selected_rows), column_max_length,
                         to_copy \o Unwrap(row_text) \o <<"\n">>))

\* copy_selected_cells: the table afterwards and the text given to
\* copy_text, if the call got that far
copy_selected_cells(table) ==
    Bind([table EXCEPT !.active_columns =
              IF table.select_full_row THEN @ \cup AllCols ELSE @], LAMBDA t :
    Bind(collect_selected(t, 0, <<>>, NoMap), LAMBDA c :
    Bind(lines_from(t, c.selected_rows, c.column_max_length, <<>>), LAMBDA to_copy :
    IF to_copy = None
    THEN [table |-> Panic(t), to_copy |-> None]
    ELSE [table |-> t, to_copy |-> Some(Unwrap(to_copy))])))

\* a faulty loop that leaves once as many rows are collected as there are
\* active columns
RECURSIVE selected_rows_by_columns(_, _, _)
selected_rows_by_columns(t, i, selected_rows) ==
    IF i >= Len(t.formatted_rows) THEN selected_rows
    ELSE Bind(At(t.formatted_rows, i), LAMBDA row :
         IF row.selected_columns = {}
         THEN selected_rows_by_columns(t, i + 1, selected_rows)
         ELSE IF Len(selected_rows) + 1 = Cardinality(t.active_columns)
         THEN Append(selected_rows, row)
         ELSE selected_rows_by_columns(t, i + 1, Append(selected_rows, row)))

\* get_selected_rows, lines 371-383, the loop from snapshot index i on: the
\* rows with a selected column, until as many are collected as the
\* active-row set has members
RECURSIVE selected_rows_from(_, _, _)
selected_rows_from(t, i, selected_rows) ==
    IF i >= Len(t.formatted_rows) THEN selected_rows
    ELSE Bind(At(t.formatted_rows, i), LAMBDA row :
         IF row.selected_columns = {}
         THEN selected_rows_from(t, i + 1, selected_rows)
         ELSE IF Len(selected_rows) + 1 = Cardinality(t.active_rows)
         THEN Append(selected_rows, row)
         ELSE selected_rows_from(t, i + 1, Append(selected_rows, row)))

\* get_selected_rows: the table afterwards and the rows returned
get_selected_rows(table) ==
    Bind([table EXCEPT !.active_columns =
              IF table.select_full_row THEN @ \cup AllCols ELSE @], LAMBDA t :
    [table |-> t, selected_rows |-> selected_rows_from(t, 0, <<>>)])

\* ---------------------------------------------------------- actions ----
Op(name, id, col, ctrl, secondary) ==
    [name |-> name, id |-> id, col |-> col, ctrl |-> ctrl, secondary |-> secondary]

\* the step was the named operation; it hands nothing to the host and does
\* not touch the auto-scroll controller
Did(name, id, col, ctrl, secondary) ==
    /\ op' = Op(name, id, col, ctrl, secondary)
    /\ returned' = None
    /\ auto_scroll' = auto_scroll

Mutators(t, kinds, payloads) ==
    {m \in [kind : {"insert"}, id : {-1}, data : payloads]
            \cup [kind : {"modify", "replace"}, id : DOMAIN t.rows, data : payloads]
            \cup [kind : {"remove"}, id : DOMAIN t.rows, data : {0}] :
        m.kind \in kinds}

\* the rows the store holds once the mutator and the insertion are done
rows_after(t, m) ==
    (DOMAIN mutator_rows(t, m))
        \cup (IF IsSome(mutator_result(m)) THEN {t.last_id_used} ELSE {})

\* the host calls add_modify_row between two frames with a mutator of one
\* of the given kinds, with one of the given payloads, while the store holds
\* at most max_rows rows
AddModifyRow(kinds, payloads, max_rows) ==
    /\ ~fault
    /\ reload_count < MaxCount
    /\ \E m \in Mutators(Table, kinds, payloads) :
         /\ IsSome(mutator_result(m)) => /\ last_id_used < MaxId
                                         /\ Cardinality(rows_after(Table, m)) <= max_rows
         /\ \E new_order \in (IF IsSome(mutator_result(m))
                              THEN Perms(rows_after(Table, m)) ELSE {hash_order}) :
              Commit(add_modify_row(Table, m, new_order))
         /\ Did(m.kind, m.id, "", FALSE, FALSE)
    /\ table_rows' = <<>>

\* a render callback (create_table_row, which is handed the table) calls
\* add_modify_row while the rows of the frame are being drawn: the rows
\* cloned for the frame stay as they are
RenderAddModifyRow(kinds, payloads, max_rows) ==
    /\ ~fault
    /\ table_rows # <<>>
    /\ reload_count < MaxCount
    /\ \E m \in Mutators(Table, kinds, payloads) :
         /\ IsSome(mutator_result(m)) => /\ last_id_used < MaxId
                                         /\ Cardinality(rows_after(Table, m)) <= max_rows
         /\ \E new_order \in (IF IsSome(mutator_result(m))
                              THEN Perms(rows_after(Table, m)) ELSE {hash_order}) :
              Commit(add_modify_row(Table, m, new_order))
         /\ Did("render_add_modify_row", m.id, "", FALSE, FALSE)
    /\ UNCHANGED table_rows

\* the host calls add_modify_row between two frames, however many calls
\* were counted before, in a build with or without overflow checks
AddModifyRowU32(kinds, payloads, max_rows) ==
    /\ ~fault
    /\ \E m \in Mutators(Table, kinds, payloads), overflow_checks \in BOOLEAN :
         /\ IsSome(mutator_result(m)) => /\ last_id_used < MaxId
                                         /\ Cardinality(rows_after(Table, m)) <= max_rows
         /\ \E new_order \in (IF IsSome(mutator_result(m))
                              THEN Perms(rows_after(Table, m)) ELSE {hash_order}) :
              Commit(add_modify_row_u32(Table, m, new_order, overflow_checks))
         /\ Did(m.kind, m.id, "", FALSE, FALSE)
    /\ table_rows' = <<>>

RecreateRows ==
    /\ ~fault
    /\ Commit(recreate_rows(Table))
    /\ table_rows' = <<>>
    /\ Did("recreate_rows", -1, "", FALSE, FALSE)

ClearAllRows ==
    /\ ~fault
    /\ Commit(clear_all_rows(Table))
    /\ table_rows' = <<>>
    /\ Did("clear_all_rows", -1, "", FALSE, FALSE)

\* show_ui reaches the body and calls rows()
Access ==
    /\ ~fault
    /\ Commit(rows_access(Table))
    /\ table_rows' = [i \in 1..Len(rows_access(Table).formatted_rows) |->
                         rows_access(Table).formatted_rows[i].id]
    /\ Did(IF Len(formatted_rows) # Cardinality(DOMAIN rows)
                THEN "rebuild" ELSE "rows", -1, "", FALSE, FALSE)

\* show_ui draws the header and one column's header is clicked
HeaderClick ==
    /\ ~fault
    /\ \E column_name \in AllCols :
         /\ Commit(header_clicked(Table, column_name))
         /\ Did("header", -1, column_name, FALSE, FALSE)
    /\ table_rows' = <<>>

SelectAll ==
    /\ ~fault
    /\ Commit(select_all(Table))
    /\ Did("select_all", -1, "", FALSE, FALSE)
    /\ UNCHANGED table_rows

UnselectAll ==
    /\ ~fault
    /\ Commit(unselect_all(Table))
    /\ Did("unselect_all", -1, "", FALSE, FALSE)
    /\ UNCHANGED table_rows

SetSelectFullRow ==
    /\ ~fault
    /\ Commit(set_select_full_row(Table, ~select_full_row))
    /\ Did("set_select_full_row", -1, "", FALSE, FALSE)
    /\ UNCHANGED table_rows

SetAutoReload ==
    /\ ~fault
    /\ \E count \in Thresholds :
         Commit(set_auto_reload(Table, count))
    /\ Did("set_auto_reload", -1, "", FALSE, FALSE)
    /\ UNCHANGED table_rows

\* what the host reports with a press or a click: <<ctrl, secondary>>
Plain == {<<FALSE, FALSE>>}
AnyMods == {<<FALSE, FALSE>>, <<TRUE, FALSE>>, <<FALSE, TRUE>>}

\* a drag starts on a cell drawn in this frame
DragStart(mods) ==
    /\ ~fault
    /\ \E row_id \in Range(table_rows), column_name \in AllCols, mod \in mods :
         /\ Commit(handle_cell(Table, row_id, column_name,
                [NoEvent EXCEPT !.drag_started = TRUE, !.contains_pointer = TRUE,
                                !.ctrl = mod[1], !.secondary = mod[2]]))
         /\ Did("drag_start", row_id, column_name, mod[1], mod[2])
    /\ UNCHANGED table_rows

\* the pointer is over a cell drawn in this frame while a drag is going on
DragMove(ctrls) ==
    /\ ~fault
    /\ IsSome(drag_started_on)
    /\ \E row_id \in Range(table_rows), column_name \in AllCols, ctrl \in ctrls :
         /\ \/ Unwrap(drag_started_on) # <<row_id, column_name>>
            \/ beyond_drag_point
         /\ Commit(handle_cell(Table, row_id, column_name,
                [NoEvent EXCEPT !.contains_pointer = TRUE, !.ctrl = ctrl]))
         /\ Did("drag_move", row_id, column_name, ctrl, FALSE)
    /\ UNCHANGED table_rows

\* the primary button is released: every cell drawn in the frame resets the
\* drag tracking
PointerReleased ==
    /\ ~fault
    /\ \E row_id \in Range(table_rows), column_name \in AllCols :
         Commit(handle_cell(Table, row_id, column_name,
                [NoEvent EXCEPT !.pointer_released = TRUE]))
    /\ Did("release", -1, "", FALSE, FALSE)
    /\ UNCHANGED table_rows

\* a click is reported in the frame in which the button is released
Click(mods) ==
    /\ ~fault
    /\ \E row_id \in Range(table_rows), column_name \in AllCols, mod \in mods :
         /\ Commit(handle_cell(Table, row_id, column_name,
                [NoEvent EXCEPT !.pointer_released = TRUE, !.clicked = TRUE,
                                !.contains_pointer = TRUE,
                                !.ctrl = mod[1], !.secondary = mod[2]]))
         /\ Did("click", row_id, column_name, mod[1], mod[2])
    /\ UNCHANGED table_rows

\* show_ui, lines 301-306: the host reports a copy event
Copy ==
    /\ ~fault
    /\ \E r \in {copy_selected_cells(Table)} :
         /\ Commit(r.table)
         /\ returned' = r.to_copy
    /\ op' = Op("copy", -1, "", FALSE, FALSE)
    /\ auto_scroll' = auto_scroll
    /\ UNCHANGED table_rows

\* the host calls get_selected_rows
GetSelectedRows ==
    /\ ~fault
    /\ \E r \in {get_selected_rows(Table)} :
         /\ Commit(r.table)
         /\ returned' = Some(r.selected_rows)
    /\ op' = Op("get_selected_rows", -1, "", FALSE, FALSE)
    /\ auto_scroll' = auto_scroll
    /\ UNCHANGED table_rows

\* every field of the table but its auto-scroll controller
table_fields ==
    <<rows, hash_order, formatted_rows, indexed_ids, sorted_by, sort_order,
      drag_started_on, active_columns, active_rows, last_active_row,
      last_active_column, beyond_drag_point, last_id_used, reload_after,
      reload_count, select_full_row, fault>>

\* the speeds the host configures
ScrollSpeeds == {max_speed_default, 0 - max_speed_default}
\* the rectangles the table is given: a tall one, and one so low that the
\* top band and the bottom band overlap
Rects == {[min_y |-> 0, max_y |-> 400], [min_y |-> 0, max_y |-> 300]}
F32(y) == [nan |-> FALSE, y |-> y]
NaN == [nan |-> TRUE, y |-> 0]
\* ui.input(|i| i.pointer.hover_pos()): no pointer, or its position
Pointers ==
    {None, Some(NaN)}
        \cup {Some(F32(y)) : y \in {0, 150, 199, 200, 240, 280, 281, 330, 450}}
\* the offsets the scroll area may report when it was given no override
HostOffsets == {0, 1000}

\* update_auto_scroll: the host replaces the controller
UpdateAutoScroll ==
    /\ ~fault
    /\ \E enabled \in BOOLEAN, speed \in ScrollSpeeds :
         auto_scroll' = AutoScroll_new(enabled, speed)
    /\ returned' = None
    /\ op' = Op("update_auto_scroll", -1, "", FALSE, FALSE)
    /\ UNCHANGED <<table_fields, table_rows>>

\* show_ui, lines 311-323: while a drag is going on the controller is asked
\* for an offset to give to the scroll area
Scroll ==
    /\ ~fault
    /\ auto_scroll.scroll_offset <= MaxOffset
    /\ \E max_rect \in Rects, pointer \in Pointers :
         \E r \in {IF IsSome(drag_started_on)
                   THEN start_scroll(auto_scroll, max_rect, pointer)
                   ELSE <<auto_scroll, None>>} :
            /\ auto_scroll' = r[1]
            /\ returned' = r[2]
    /\ op' = Op("scroll", -1, "", FALSE, FALSE)
    /\ UNCHANGED <<table_fields, table_rows>>

\* show_ui, lines 364-365: the offset of the scroll area after the frame is
\* stored; it is the override the area was given in this frame or an offset
\* of the area's own
UpdateScrollOffset ==
    /\ ~fault
    /\ \E offset \in HostOffsets
                     \cup (IF op.name = "scroll" THEN Range(returned) ELSE {}) :
         auto_scroll' = [auto_scroll EXCEPT !.scroll_offset = offset]
    /\ returned' = None
    /\ op' = Op("update_scroll_offset", -1, "", FALSE, FALSE)
    /\ UNCHANGED <<table_fields, table_rows>>

\* the table starts as t
Start(t) ==
    /\ rows = t.rows
    /\ hash_order = t.hash_order
    /\ formatted_rows = t.formatted_rows
    /\ indexed_ids = t.indexed_ids
    /\ sorted_by = t.sorted_by
    /\ sort_order = t.sort_order
    /\ drag_started_on = t.drag_started_on
    /\ active_columns = t.active_columns
    /\ active_rows = t.active_rows
    /\ last_active_row = t.last_active_row
    /\ last_active_column = t.last_active_column
    /\ beyond_drag_point = t.beyond_drag_point
    /\ last_id_used = t.last_id_used
    /\ reload_after = t.reload_after
    /\ reload_count = t.reload_count
    /\ select_full_row = t.select_full_row
    /\ fault = t.fault

Init ==
    /\ Start(new)
    /\ table_rows = <<>>
    /\ auto_scroll = AutoScroll_default
    /\ returned = None
    /\ op = Op("new", -1, "", FALSE, FALSE)

\* the drag machine without modifiers over a table that only grows
Next ==
    \/ AddModifyRow({"insert"}, RowData, MaxRows)
    \/ Access
    \/ DragStart(Plain)
    \/ DragMove({FALSE})
    \/ PointerReleased
    \/ Click(Plain)

Spec == Init /\ [][Next]_vars

AllKinds == {"insert", "modify", "remove", "replace"}

\* the store and the sort: every kind of mutator, invalidation, header clicks,
\* and clicks that leave a selection behind
NextStore ==
    \/ AddModifyRow(AllKinds, RowData, MaxRows)
    \/ RecreateRows
    \/ ClearAllRows
    \/ Access
    \/ HeaderClick
    \/ Click(Plain)

SpecStore == Init /\ [][NextStore]_vars

\* clicks and drags with every modifier, select_all / unselect_all and the
\* select-full-row mode over a small table
NextCtrl ==
    \/ AddModifyRow({"insert"}, {0}, MaxRowsCtrl)
    \/ Access
    \/ DragStart(AnyMods)
    \/ DragMove({FALSE, TRUE})
    \/ PointerReleased
    \/ Click(AnyMods)
    \/ SelectAll
    \/ UnselectAll
    \/ SetSelectFullRow

SpecCtrl == Init /\ [][NextCtrl]_vars

\* the auto-reload counter
NextReload ==
    \/ AddModifyRow(AllKinds, {0}, MaxRows)
    \/ SetAutoReload
    \/ RecreateRows
    \/ Access
    \/ Click(Plain)

SpecReload == Init /\ [][NextReload]_vars

\* payloads changed in place, then made visible or not
NextPayload ==
    \/ AddModifyRow({"insert", "modify"}, RowData, MaxRowsCopy)
    \/ SetAutoReload
    \/ RecreateRows
    \/ Access

SpecPayload == Init /\ [][NextPayload]_vars

\* clicks in a frame whose render callbacks change the store
NextRender ==
    \/ AddModifyRow({"insert"}, {0}, MaxRowsCopy)
    \/ SetAutoReload
    \/ Access
    \/ RenderAddModifyRow({"insert", "modify"}, {0}, MaxRowsCopy)
    \/ Click(Plain)

SpecRender == Init /\ [][NextRender]_vars

\* a drag while the host inserts rows, reloads and clears the table
NextDragStore ==
    \/ AddModifyRow({"insert"}, {0}, MaxRowsCtrl)
    \/ SetAutoReload
    \/ RecreateRows
    \/ ClearAllRows
    \/ Access
    \/ DragStart(Plain)
    \/ DragMove({FALSE})
    \/ PointerReleased

SpecDragStore == Init /\ [][NextDragStore]_vars

\* the mutation counter over its whole range
NextCounter ==
    \/ AddModifyRowU32({"insert", "modify"}, RowData, MaxRowsCopy)
    \/ SetAutoReload
    \/ RecreateRows
    \/ Access

SpecCounter == Init /\ [][NextCounter]_vars

\* copying a selection made with clicks, with or without ctrl, in either
\* selection mode, from rows whose texts differ
NextCopy ==
    \/ AddModifyRow({"insert"}, RowData, MaxRowsCopy)
    \/ Access
    \/ Click(AnyMods)
    \/ SetSelectFullRow
    \/ Copy

SpecCopy == Init /\ [][NextCopy]_vars

\* asking for the selected rows after clicks, with or without ctrl, in
\* either selection mode
NextSelected ==
    \/ AddModifyRow({"insert"}, RowData, MaxRowsCopy)
    \/ Access
    \/ Click(AnyMods)
    \/ SetSelectFullRow
    \/ GetSelectedRows

SpecSelected == Init /\ [][NextSelected]_vars

\* the auto-scroll controller over a table with a drag going on or not
NextScroll ==
    \/ AddModifyRow({"insert"}, {0}, MaxRowsScroll)
    \/ Access
    \/ DragStart(Plain)
    \/ PointerReleased
    \/ UpdateAutoScroll
    \/ Scroll
    \/ UpdateScrollOffset

SpecScroll == Init /\ [][NextScroll]_vars

\* ----------------------------------------------------------- claims ----
\* the identities of the snapshot rows whose index lies between two indices
RowsBetween(p1, p2) ==
    {formatted_rows[i].id : i \in {j \in 1..Len(formatted_rows) :
        in_drag_range(j - 1, p2, p1)}}

\* the columns whose number lies between the numbers of two columns
ColumnsBetween(c1, c2) ==
    {c \in AllCols :
        \/ column_to_num(c1) <= column_to_num(c) /\ column_to_num(c) <= column_to_num(c2)
        \/ column_to_num(c2) <= column_to_num(c) /\ column_to_num(c) <= column_to_num(c1)}

\* the selection is the rectangle spanned by the cells (r1, c1) and (r2, c2)
IsRectangle(r1, c1, r2, c2) ==
    /\ r1 \in DOMAIN indexed_ids
    /\ r2 \in DOMAIN indexed_ids
    /\ active_rows = RowsBetween(indexed_ids[r1], indexed_ids[r2])
    /\ \A i \in 1..Len(formatted_rows) :
         formatted_rows[i].selected_columns =
            IF formatted_rows[i].id \in RowsBetween(indexed_ids[r1], indexed_ids[r2])
            THEN ColumnsBetween(c1, c2) ELSE {}

\* C1: after a drag move without modifier on the cell (r2, c2) of a drag that
\* started without modifier on (r1, c1), the active rows are the rows between
\* r1 and r2 in the snapshot, each with the columns between c1 and c2
\* selected, and no other row has a selected column.
C1_DragSelectsRectangle ==
    (op.name = "drag_move" /\ ~fault /\ IsSome(drag_started_on))
        => IsRectangle(Unwrap(drag_started_on)[1], Unwrap(drag_started_on)[2],
                       op.id, op.col)

\* the cells (row identity, column) selected in a snapshot
SelectedCells(snapshot) ==
    {<<snapshot[i].id, c>> : i \in 1..Len(snapshot), c \in AllCols} \cap
    UNION {{<<snapshot[i].id, c>> : c \in snapshot[i].selected_columns} :
              i \in 1..Len(snapshot)}

\* C2: a drag move with ctrl held only adds: every cell selected before the
\* move is selected after it and no column leaves the active-column set.
C2_CtrlDragOnlyAdds ==
    [][(op'.name = "drag_move" /\ op'.ctrl /\ ~fault')
        => /\ SelectedCells(formatted_rows) \subseteq SelectedCells(formatted_rows')
           /\ active_columns \subseteq active_columns']_vars

\* the store holds as many rows as the snapshot
Fresh == Len(formatted_rows) = Cardinality(DOMAIN rows)

\* C3: whatever mutations precede it, every call of rows() leaves a snapshot
\* whose length equals the number of rows in the store.
C3_SnapshotLengthIsStoreSize ==
    op.name \in {"rebuild", "rows"} => Fresh

C3_Witness ==
    /\ op.name = "rebuild"
    /\ Cardinality(DOMAIN rows) = MaxRows
    /\ Fresh

\* the snapshot holds every row of the store once
IsPermutationOfStore ==
    /\ Len(formatted_rows) = Cardinality(DOMAIN rows)
    /\ {formatted_rows[i].id : i \in 1..Len(formatted_rows)} = DOMAIN rows
    /\ \A i \in 1..Len(formatted_rows) : formatted_rows[i] = rows[formatted_rows[i].id]

\* every adjacent pair of the snapshot is in the order of the sort spec
IsOrdered ==
    \A i \in 1..(Len(formatted_rows) - 1) :
        LET ordering == order_by(sorted_by, formatted_rows[i].row_data,
                                 formatted_rows[i + 1].row_data)
        IN  IF sort_order = "Ascending" THEN ordering # "Greater"
            ELSE ordering # "Less"

\* C7: a snapshot just rebuilt is a permutation of the rows of the store and
\* is ordered by the comparator of the sort column: non-decreasing when the
\* order is Ascending, non-increasing when it is Descending.
C7_RebuildSortsTheStore ==
    op.name = "rebuild" => IsPermutationOfStore /\ IsOrdered

C7_Witness ==
    /\ op.name = "rebuild"
    /\ sort_order = "Descending"
    /\ Len(formatted_rows) = MaxRows
    /\ \E i \in 1..(Len(formatted_rows) - 1) :
         order_by(sorted_by, formatted_rows[i].row_data,
                  formatted_rows[i + 1].row_data) = "Greater"
    /\ IsPermutationOfStore /\ IsOrdered

toggle_rebuild(t) == rows_access(header_clicked(t, t.sorted_by))

\* C9: from a snapshot just rebuilt, toggling the sort order twice, each
\* toggle followed by a rebuild, gives back the original row order whenever
\* both toggles complete.
C9_ToggleTwiceRestoresOrder ==
    op.name = "rebuild"
        => \/ toggle_rebuild(toggle_rebuild(Table)).fault
           \/ toggle_rebuild(toggle_rebuild(Table)).formatted_rows = formatted_rows

\* a rebuilt snapshot that one toggle really reorders and two toggles restore
C9_Witness ==
    /\ op.name = "rebuild"
    /\ Len(formatted_rows) = MaxRows
    /\ ~toggle_rebuild(toggle_rebuild(Table)).fault
    /\ toggle_rebuild(Table).formatted_rows # formatted_rows
    /\ toggle_rebuild(toggle_rebuild(Table)).formatted_rows = formatted_rows

\* no cell is selected and both active sets are empty
NoSelection(t) ==
    /\ \A i \in 1..Len(t.formatted_rows) : t.formatted_rows[i].selected_columns = {}
    /\ t.active_rows = {}
    /\ t.active_columns = {}

\* C6: a header click completes and leaves no row with a selected column and
\* both active sets empty.
C6_HeaderClickClearsSelection ==
    op.name = "header" => ~fault /\ NoSelection(Table)

\* C5: from a state with an empty selection, select_all followed by
\* unselect_all completes and leaves no row with a selected column, both
\* active sets empty and the last-touched row and column unset.
C5_SelectAllThenUnselectAll ==
    (~fault /\ NoSelection(Table))
        => /\ ~unselect_all(select_all(Table)).fault
           /\ NoSelection(unselect_all(select_all(Table)))
           /\ unselect_all(select_all(Table)).last_active_row = None
           /\ unselect_all(select_all(Table)).last_active_column = None

\* unselect_all has just emptied the selection of a full snapshot, select_all
\* selects every cell of it, and unselect_all empties it again
C5_Witness ==
    /\ op.name = "unselect_all"
    /\ ~fault
    /\ NoSelection(Table)
    /\ Len(formatted_rows) = MaxRowsCtrl
    /\ Cardinality(SelectedCells(select_all(Table).formatted_rows))
           = MaxRowsCtrl * Len(all_columns)
    /\ NoSelection(unselect_all(select_all(Table)))

\* C10: a click on the cell (r, c) that completes.  Without ctrl and without
\* a secondary click the selection is exactly that cell: row r selects {c}
\* (every column in select-full-row mode), no other row selects a column and
\* the active rows are {r}.  With ctrl or a secondary click every cell
\* selected before stays selected, the clicked cell is selected, and nothing
\* leaves the active sets.
C10_ClickSelectsCell ==
    [][(op'.name = "click" /\ ~fault')
        => IF ~op'.ctrl /\ ~op'.secondary
           THEN /\ active_rows' = {op'.id}
                /\ \A i \in 1..Len(formatted_rows') :
                     formatted_rows'[i].selected_columns =
                        IF formatted_rows'[i].id # op'.id THEN {}
                        ELSE IF select_full_row' THEN AllCols
                        ELSE {op'.col}
           ELSE /\ SelectedCells(formatted_rows) \subseteq SelectedCells(formatted_rows')
                /\ <<op'.id, op'.col>> \in SelectedCells(formatted_rows')
                /\ active_rows \cup {op'.id} \subseteq active_rows'
                /\ active_columns \cup {op'.col} \subseteq active_columns']_vars

\* a click with ctrl held that kept a cell of another row
C10_Witness ==
    /\ op.name = "click"
    /\ op.ctrl
    /\ ~fault
    /\ <<op.id, op.col>> \in SelectedCells(formatted_rows)
    /\ \E cell \in SelectedCells(formatted_rows) : cell[1] # op.id

\* a step of add_modify_row while a threshold of at least one is configured
IsCountedCall ==
    /\ op'.name \in AllKinds
    /\ IsSome(reload_after)
    /\ Unwrap(reload_after) >= 1

DragIdle(t) ==
    /\ t.drag_started_on = None
    /\ t.last_active_row = None
    /\ t.last_active_column = None
    /\ t.beyond_drag_point = FALSE

\* C12: a pointer release leaves the drag tracking idle and changes nothing
\* else: every row's selected columns, both active sets and every other
\* field are as before; with no drag origin set the release changes nothing.
C12_ReleaseResetsDragOnly ==
    [][op'.name = "release"
        => /\ DragIdle(Table')
           /\ Table' = [Table EXCEPT !.drag_started_on = None,
                                     !.last_active_row = None,
                                     !.last_active_column = None,
                                     !.beyond_drag_point = FALSE]
           /\ table_rows' = table_rows
           /\ (drag_started_on = None => Table' = Table)]_vars

\* a release has ended a drag that selected several cells of a row, and the
\* cells are still selected
C12_Witness ==
    /\ op.name = "release"
    /\ DragIdle(Table)
    /\ \E i \in 1..Len(formatted_rows) :
         /\ Cardinality(formatted_rows[i].selected_columns) >= 2
         /\ formatted_rows[i].id \in active_rows

\* C13: the identity counter never goes down; a step that adds a row to the
\* store adds exactly the row keyed by the counter's value, carrying that
\* value as its identity, and raises the counter by one; every row of the
\* store is keyed by its own identity, which lies below the counter.  So the
\* identities issued are strictly increasing and none is issued twice.
C13_IdentitiesStrictlyIncrease ==
    [][/\ last_id_used' >= last_id_used
       /\ (op'.name \in {"insert", "replace"} \/ DOMAIN rows' \ DOMAIN rows # {})
            => /\ DOMAIN rows' \ DOMAIN rows = {last_id_used}
               /\ last_id_used' = last_id_used + 1
       /\ \A id \in DOMAIN rows' : rows'[id].id = id /\ id < last_id_used']_vars

\* a row has been inserted into a store that is empty although identities
\* were issued before: it gets the next identity, not an old one
C13_Witness ==
    /\ op.name = "insert"
    /\ last_id_used >= 2
    /\ DOMAIN rows = {last_id_used - 1}

\* C14: after clear_all_rows the store, the snapshot, the active-row set and
\* the active-column set are empty, whatever the state before.
C14_ClearAllRowsEmpties ==
    [][op'.name = "clear_all_rows"
        => /\ DOMAIN rows' = {}
           /\ formatted_rows' = <<>>
           /\ active_rows' = {}
           /\ active_columns' = {}]_vars

\* clear_all_rows has emptied a table whose snapshot had been built
C14_Witness ==
    /\ op.name = "clear_all_rows"
    /\ DOMAIN rows = {}
    /\ formatted_rows = <<>>
    /\ DOMAIN indexed_ids # {}
    /\ last_id_used >= 2

\* C15: when a row of the active-row set has been removed from the store and
\* the snapshot has been rebuilt (it holds exactly the rows of the store), the
\* next click completes without fault and leaves no removed identity in the
\* active-row set.
C15_RemovedActiveRowIsPruned ==
    [][(/\ op'.name = "click"
        /\ active_rows \ DOMAIN rows # {}
        /\ {formatted_rows[i].id : i \in 1..Len(formatted_rows)} = DOMAIN rows)
        => /\ ~fault'
           /\ active_rows' \subseteq DOMAIN rows']_vars

\* C16: the stored scroll offset is never negative, and neither is an offset
\* returned by start_scroll.
C16_OffsetNeverNegative ==
    /\ auto_scroll.scroll_offset >= 0
    /\ op.name = "scroll" /\ IsSome(returned) => Unwrap(returned) >= 0

\* an upward scroll step that would have gone below zero ended at zero
C16_Witness ==
    /\ op.name = "scroll"
    /\ returned = Some(0)
    /\ auto_scroll.scroll_offset = 0
    /\ auto_scroll.max_speed > 0

C18_NoThresholdNoReload ==
    [][/\ (op'.name \in AllKinds /\ reload_after = None)
            => /\ formatted_rows' = formatted_rows
               /\ active_rows' = active_rows
               /\ active_columns' = active_columns
               /\ reload_count' = reload_count + 1
       /\ (op'.name \in {"rows", "rebuild"} /\ reload_after = None /\ Fresh)
            => /\ op'.name = "rows"
               /\ formatted_rows' = formatted_rows]_vars

\* with no threshold set, as many calls as the model counts have been made
\* and the snapshot and the selection are still there
C18_Witness ==
    /\ op.name \in AllKinds
    /\ reload_after = None
    /\ reload_count = MaxCount
    /\ formatted_rows # <<>>
    /\ active_rows # {}

\* the lines of a text: what stands before each newline
RECURSIVE LinesOf(_, _, _)
LinesOf(text, line, lines) ==
    IF text = <<>> THEN lines
    ELSE IF Head(text) = "\n" THEN LinesOf(Tail(text), <<>>, Append(lines, line))
    ELSE LinesOf(Tail(text), Append(line, Head(text)), lines)

\* the snapshot rows with at least one selected column, in snapshot order
RECURSIVE SelectedFrom(_)
SelectedFrom(snapshot) ==
    IF snapshot = <<>> THEN <<>>
    ELSE IF Head(snapshot).selected_columns = {} THEN SelectedFrom(Tail(snapshot))
    ELSE <<Head(snapshot)>> \o SelectedFrom(Tail(snapshot))

SelectedRows == SelectedFrom(formatted_rows)

\* the characters of the longest text of a column among the rows that
\* select it
LongestText(column) ==
    LET lengths == {Len(column_text(column, SelectedRows[k].row_data)) :
                      k \in {j \in 1..Len(SelectedRows) :
                                column \in SelectedRows[j].selected_columns}}
    IN  IF lengths = {} THEN 0 ELSE CHOOSE n \in lengths : \A m \in lengths : m <= n

\* a text followed by spaces up to a width
RECURSIVE Padded(_, _)
Padded(text, width) ==
    IF Len(text) >= width THEN text ELSE Padded(text \o <<" ">>, width)

\* the line of a row whose fields, one for each active column in column
\* order, are all one wider than the longest text of their column
RECURSIVE AlignedLine(_, _)
AlignedLine(row, i) ==
    IF i >= Len(all_columns) THEN <<>>
    ELSE Bind(At(all_columns, i), LAMBDA column :
         (IF column \notin active_columns THEN <<>>
          ELSE Padded(IF column \in row.selected_columns
                      THEN column_text(column, row.row_data) ELSE <<>>,
                      LongestText(column) + 1))
         \o AlignedLine(row, i + 1))

\* the text of the last copy
Copied == IF op.name = "copy" /\ IsSome(returned) THEN Unwrap(returned) ELSE <<>>

\* C19: in a copied text the line of every selected row is made of one field
\* for each active column, as wide as the longest text of that column among
\* the rows selecting it plus one; so all lines are equally long.
C19_FieldsAreLongestPlusOne ==
    (op.name = "copy" /\ IsSome(returned))
        => \A k \in 1..Len(LinesOf(Copied, <<>>, <<>>)) :
              /\ k <= Len(SelectedRows)
              /\ LinesOf(Copied, <<>>, <<>>)[k] = AlignedLine(SelectedRows[k], 0)

\* the line a row contributes, as copy_selected_cells writes it
CopiedLine(row) ==
    Bind(collect_selected(Table, 0, <<>>, NoMap), LAMBDA c :
         row_text_from(Table, row, c.column_max_length, first_column, <<>>))

\* C20: a copy that completes emits only newline-terminated lines, one for
\* each snapshot row with a selected column and none besides, in snapshot
\* order; with no selected cell the text is empty.
C20_OneLinePerSelectedRow ==
    (op.name = "copy" /\ IsSome(returned))
        => /\ Copied = <<>> \/ Copied[Len(Copied)] = "\n"
           /\ Len(LinesOf(Copied, <<>>, <<>>)) = Len(SelectedRows)
           /\ \A k \in 1..Len(SelectedRows) :
                 Some(LinesOf(Copied, <<>>, <<>>)[k]) = CopiedLine(SelectedRows[k])
           /\ SelectedRows = <<>> => Copied = <<>>

\* two rows were copied, and the snapshot shows them in another order than
\* they were inserted in
C20_Witness ==
    /\ op.name = "copy"
    /\ IsSome(returned)
    /\ Len(SelectedRows) = 2
    /\ Len(formatted_rows) = 2
    /\ formatted_rows[1].id > formatted_rows[2].id
    /\ Len(LinesOf(Copied, <<>>, <<>>)) = 2

\* the widths copy_selected_cells has recorded when it starts to write
CopyWidths == collect_selected(Table, 0, <<>>, NoMap).column_max_length

\* where the field of the column numbered i starts in a copied line: behind
\* the fields of the active columns before it
RECURSIVE FieldStart(_)
FieldStart(i) ==
    IF i = 0 THEN 0
    ELSE FieldStart(i - 1)
         + (IF At(all_columns, i - 1) \in active_columns
               /\ At(all_columns, i - 1) \in DOMAIN CopyWidths
            THEN CopyWidths[At(all_columns, i - 1)] + 1 ELSE 0)

\* the field of a column in a copied line is all spaces and as wide as the
\* column's padded width
IsBlankField(line, column) ==
    /\ column \in DOMAIN CopyWidths
    /\ Len(line) >= FieldStart(column_to_num(column)) + CopyWidths[column] + 1
    /\ \A j \in 1..(CopyWidths[column] + 1) :
          line[FieldStart(column_to_num(column)) + j] = " "

\* C21: every copy completes without fault, and the line of every row with
\* a selection holds, for every active column the row has not selected, a
\* blank field of the column's padded width.
C21_CopyCompletesWithBlankFields ==
    op.name = "copy"
        => /\ ~fault
           /\ IsSome(returned)
           /\ \A k \in 1..Len(SelectedRows) :
                 \A column \in active_columns \ SelectedRows[k].selected_columns :
                    /\ k <= Len(LinesOf(Copied, <<>>, <<>>))
                    /\ IsBlankField(LinesOf(Copied, <<>>, <<>>)[k], column)

\* the selected columns of the snapshot row with the identity id
SelectedOf(snapshot, id) ==
    UNION {snapshot[i].selected_columns :
             i \in {j \in 1..Len(snapshot) : snapshot[j].id = id}}

\* C22: a snapshot access that follows an insertion which reached no reload
\* threshold leaves the selected columns of every row the snapshot held
\* unchanged.
C22_SelectionSurvivesInsertion ==
    [][(op.name = "insert" /\ op'.name \in {"rows", "rebuild"})
        => \A i \in 1..Len(formatted_rows) :
              SelectedOf(formatted_rows', formatted_rows[i].id)
                  = formatted_rows[i].selected_columns]_vars

\* C23: while no fault was raised, the active-row set is exactly the set of
\* the identities of the snapshot rows with at least one selected column.
C23_ActiveRowsAreSelectedRows ==
    ~fault => active_rows = {SelectedRows[k].id : k \in 1..Len(SelectedRows)}

\* C24: while no fault was raised, the active-column set is exactly the set
\* of the columns selected in at least one snapshot row.
C24_ActiveColumnsAreSelectedColumns ==
    ~fault => active_columns
                = UNION {formatted_rows[i].selected_columns : i \in 1..Len(formatted_rows)}

\* every row of the store is shown by the snapshot t holds with every column
\* selected
AllSelected(t) ==
    /\ {t.formatted_rows[i].id : i \in 1..Len(t.formatted_rows)} = DOMAIN t.rows
    /\ \A i \in 1..Len(t.formatted_rows) :
          t.formatted_rows[i].selected_columns = AllCols

\* C25: after select_all every row of the table has every column selected,
\* and after the snapshot access that follows it every row still has.
C25_SelectAllSelectsEveryRow ==
    [][/\ op'.name = "select_all" => AllSelected(Table')
       /\ (op.name = "select_all" /\ op'.name \in {"rows", "rebuild"})
            => AllSelected(Table')]_vars

\* C26: in select-full-row mode every row that get_selected_rows returns
\* has every column of the table selected.
C26_FullRowModeReturnsFullRows ==
    (op.name = "get_selected_rows" /\ select_full_row)
        => \A k \in 1..Len(Unwrap(returned)) :
              Unwrap(returned)[k].selected_columns = AllCols

\* a step in which recreate_rows ran: called by the host, or by an
\* add_modify_row that reached the threshold
IsRecreate ==
    \/ op'.name = "recreate_rows"
    \/ /\ op'.name \in AllKinds
       /\ IsSome(reload_after)
       /\ reload_count + 1 >= Unwrap(reload_after)

\* the last step ran recreate_rows: a call of add_modify_row leaves the
\* counter at zero only when it reached the threshold
WasRecreate ==
    \/ op.name = "recreate_rows"
    \/ op.name \in AllKinds /\ IsSome(reload_after) /\ reload_count = 0

\* C27: after recreate_rows, called by the host or by the auto-reload
\* threshold, both active sets are empty and the snapshot holds no row; the
\* snapshot access that follows a recreate_rows leaves no row with a
\* selected column and both active sets empty.
C27_RecreateClearsSelection ==
    [][/\ IsRecreate => /\ NoSelection(Table')
                        /\ formatted_rows' = <<>>
       /\ (WasRecreate /\ op'.name \in {"rows", "rebuild"})
            => /\ NoSelection(Table')
               /\ Len(formatted_rows') = Cardinality(DOMAIN rows')]_vars

\* a snapshot access has rebuilt, without any selection, the rows of a table
\* that recreate_rows had just emptied
C27_Witness ==
    /\ op.name = "rebuild"
    /\ Len(formatted_rows) >= 2
    /\ NoSelection(Table)
    /\ reload_count = 0
    /\ IsSome(reload_after)

\* C28: a header click that completes on a column other than the sort
\* column makes the sort spec (that column, Ascending); on the sort column it
\* flips the direction and keeps the column.  Either way the identity
\* counter is unchanged, and the snapshot access that follows leaves the
\* rows of the store ordered under the new sort spec, which it keeps.
C28_HeaderClickSetsSortSpec ==
    [][/\ (op'.name = "header" /\ ~fault')
            => /\ IF op'.col = sorted_by
                  THEN /\ sorted_by' = sorted_by
                       /\ sort_order' = IF sort_order = "Ascending"
                                        THEN "Descending" ELSE "Ascending"
                  ELSE /\ sorted_by' = op'.col
                       /\ sort_order' = "Ascending"
               /\ last_id_used' = last_id_used
               /\ formatted_rows' = <<>>
       /\ (op.name = "header" /\ ~fault /\ op'.name \in {"rows", "rebuild"})
            => /\ IsPermutationOfStore' /\ IsOrdered'
               /\ DOMAIN rows # {} => op'.name = "rebuild"
               /\ sorted_by' = sorted_by
               /\ sort_order' = sort_order
               /\ last_id_used' = last_id_used]_vars

\* the snapshot was rebuilt in descending order of another column than the
\* first, in an order that ascending would not give
C28_Witness ==
    /\ op.name = "rebuild"
    /\ sorted_by # first_column
    /\ sort_order = "Descending"
    /\ Len(formatted_rows) >= 2
    /\ \E i \in 1..(Len(formatted_rows) - 1) :
         order_by(sorted_by, formatted_rows[i].row_data,
                  formatted_rows[i + 1].row_data) = "Greater"

\* C29: a drag move on the cell of the drag move processed just before it
\* changes nothing: not the selected columns of any row, not the active
\* sets, not the last-touched row and column, nor any other field.
C29_RepeatedDragMoveIsNoOp ==
    [][(/\ op.name = "drag_move" /\ ~fault
        /\ op'.name = "drag_move"
        /\ op'.id = op.id /\ op'.col = op.col)
        => Table' = Table]_vars

\* C30: with a threshold of zero every call of add_modify_row runs
\* recreate_rows and leaves the counter at zero, without fault: the
\* snapshot and both active sets are empty afterwards.
C30_ZeroThresholdReloadsEveryCall ==
    [][(op'.name \in AllKinds /\ reload_after = Some(0))
        => /\ ~fault'
           /\ reload_count' = 0
           /\ formatted_rows' = <<>>
           /\ active_rows' = {}
           /\ active_columns' = {}]_vars

\* under a threshold of zero a call has emptied a snapshot that the frame
\* before had built after an earlier call
C30_Witness ==
    /\ op.name \in AllKinds
    /\ reload_after = Some(0)
    /\ reload_count = 0
    /\ formatted_rows = <<>>
    /\ DOMAIN indexed_ids # {}
    /\ Cardinality(DOMAIN rows) >= 2

\* the top and the bottom threshold of a rectangle for the controller a
MinY(a, max_rect) == max_rect.min_y + a.distance_from_min
MaxY(a, max_rect) == max_rect.max_y - a.distance_from_max

\* max_speed times clamp(distance / 100, 0.1, 1.0), in hundredths of a pixel
Delta(a, distance) ==
    a.max_speed * (IF distance < 10 THEN 10 ELSE IF distance > 100 THEN 100 ELSE distance)

AtLeastZero(x) == IF x < 0 THEN 0 ELSE x

\* one frame of an enabled controller with the pointer at the number y: what
\* start_scroll leaves as the offset, given that the pointer is above the
\* top threshold, below the bottom threshold, or neither
FrameMoves(a, max_rect, y, is_above, is_below) ==
    LET r == start_scroll(a, max_rect, Some(F32(y)))
    IN  /\ is_above =>
              /\ r[1].scroll_offset
                    = AtLeastZero(a.scroll_offset - Delta(a, MinY(a, max_rect) - y))
              /\ a.max_speed > 0 => r[1].scroll_offset <= a.scroll_offset
              /\ r[2] = Some(r[1].scroll_offset)
        /\ is_below =>
              /\ r[1].scroll_offset
                    = AtLeastZero(a.scroll_offset + Delta(a, y - MaxY(a, max_rect)))
              /\ a.max_speed > 0 => r[1].scroll_offset > a.scroll_offset
              /\ r[2] = Some(r[1].scroll_offset)
        /\ (~is_above /\ ~is_below) => r = <<a, None>>
        /\ r[1] = [a EXCEPT !.scroll_offset = r[1].scroll_offset]

\* the pointer positions that are numbers
PointerYs == {Unwrap(pointer).y : pointer \in {q \in Pointers : IsSome(q) /\ ~Unwrap(q).nan}}

RECURSIVE span_walk(_, _, _, _)
span_walk(col, column_name, get_previous, walk) ==
    LET next == IF get_previous THEN next_column(col) ELSE previous_column(col)
        step == [steps |-> walk.steps + 1,
                 wrapped |-> walk.wrapped
                     \/ column_to_num(next) - column_to_num(col) \notin {1, 0 - 1}]
    IN  IF next = column_name \/ step.steps > Len(all_columns)
        THEN step
        ELSE span_walk(next, column_name, get_previous, step)

\* the calls of check_row_selection that one call from the snapshot index
\* index0 makes, itself included
RECURSIVE row_walk(_, _, _, _)
row_walk(t, check_previous, index0, drag_start) ==
    IF index0 = 0 /\ check_previous THEN 1
    ELSE IF index0 + 1 = Len(t.formatted_rows) /\ ~check_previous THEN 1
    ELSE
        LET index == IF check_previous THEN index0 - 1 ELSE index0 + 1
            unselected_row ==
                IF (check_previous /\ index >= drag_start)
                    \/ (~check_previous /\ index <= drag_start)
                THEN FALSE
                ELSE At(t.formatted_rows, index).selected_columns = {}
            t1 == [t EXCEPT !.formatted_rows[index + 1].selected_columns =
                                drag_columns(t, @)]
        IN  IF unselected_row THEN 1
            ELSE IF check_previous
                 THEN IF index # 0
                      THEN 1 + row_walk(t1, check_previous, index, drag_start)
                      ELSE 1
                 ELSE IF index + 1 # Len(t.formatted_rows)
                      THEN 1 + row_walk(t1, check_previous, index, drag_start)
                      ELSE 1

\* C32: for every drag-origin column and every other column the span walk
\* ends within (number of columns) iterations and never goes around the end
\* of the column list; from every snapshot row and for every drag-origin
\* row the walk of check_row_selection ends within (number of snapshot
\* rows) calls in either direction.
C32_DragWalksTerminate ==
    /\ \A start \in AllCols : \A column_name \in AllCols \ {start} :
          LET walk == span_walk(start, column_name,
                                column_to_num(column_name) > column_to_num(start),
                                [steps |-> 0, wrapped |-> FALSE])
          IN  walk.steps <= Len(all_columns) /\ ~walk.wrapped
    /\ \A index \in 0..(Len(formatted_rows) - 1),
          drag_start \in 0..(Len(formatted_rows) - 1),
          check_previous \in BOOLEAN :
          row_walk(Table, check_previous, index, drag_start) <= Len(formatted_rows)

\* a drag move has walked over all three columns and all three rows
C32_Witness ==
    /\ op.name = "drag_move"
    /\ ~fault
    /\ active_columns = AllCols
    /\ Len(formatted_rows) = MaxRows
    /\ \A i \in 1..Len(formatted_rows) : formatted_rows[i].selected_columns = AllCols

\* the snapshot shows the row id with a payload that the store no longer has
ShowsOld(t, id) ==
    /\ id \in DOMAIN t.rows
    /\ \E i \in 1..Len(t.formatted_rows) :
          /\ t.formatted_rows[i].id = id
          /\ t.formatted_rows[i].row_data # t.rows[id].row_data

\* the snapshot shows the row id with the payload of the store
ShowsStore(t, id) ==
    /\ id \in DOMAIN t.rows
    /\ \E i \in 1..Len(t.formatted_rows) :
          /\ t.formatted_rows[i].id = id
          /\ t.formatted_rows[i].row_data = t.rows[id].row_data

\* the next state as a table
TableNext ==
    [Table EXCEPT !.rows = rows', !.formatted_rows = formatted_rows']

\* the step is a snapshot access
IsAccess == op'.name \in {"rebuild", "rows"}

C34_ReturnsEverySelectedRow ==
    ~fault => get_selected_rows(Table).selected_rows = SelectedRows

\* get_selected_rows has returned two selected rows and has left its loop
\* at the second, where the active-row set was matched
C34_Witness ==
    /\ op.name = "get_selected_rows"
    /\ ~fault
    /\ Len(Unwrap(returned)) = MaxRowsCopy
    /\ Cardinality(active_rows) = MaxRowsCopy

\* C35: a click on a cell of a row drawn in the current frame completes
\* without a fault, also when a render callback of the frame called
\* add_modify_row before and reached the auto-reload threshold.
C35_ClickInFrameNeverFaults ==
    op.name = "click" => ~fault

\* C36: while a drag is in progress, a drag move completes without a fault
\* whatever insertions, auto-reloads, calls of recreate_rows and calls of
\* clear_all_rows followed by insertions came before it: the drag-origin
\* row and the last-touched row are in the reverse index when they are
\* looked up.
C36_DragMoveNeverFaults ==
    op.name = "drag_move" => ~fault

\* C37: in every state the last-touched row is set exactly when the
\* last-touched column is set, and a set last-touched cell or a true
\* moved-beyond-origin flag comes with a set drag origin.
C37_DragFieldsConsistent ==
    /\ IsSome(last_active_row) <=> IsSome(last_active_column)
    /\ (IsSome(last_active_row) \/ IsSome(last_active_column) \/ beyond_drag_point)
          => IsSome(drag_started_on)

\* a drag move has left a last-touched cell and the flag behind
C37_Witness ==
    /\ op.name = "drag_move"
    /\ ~fault
    /\ IsSome(last_active_row)
    /\ IsSome(last_active_column)
    /\ beyond_drag_point
    /\ Unwrap(last_active_row) # Unwrap(drag_started_on)[1]

\* C38: in every state the reverse index maps the identity of the row at
\* every position of the snapshot to that position.
C38_IndexAgreesWithSnapshot ==
    \A i \in 0..(Len(formatted_rows) - 1) :
        /\ At(formatted_rows, i).id \in DOMAIN indexed_ids
        /\ indexed_ids[At(formatted_rows, i).id] = i

\* a header click and the access after it have rebuilt a snapshot of three
\* rows in an order that is not the order of insertion
C38_Witness ==
    /\ op.name = "rebuild"
    /\ Len(formatted_rows) = MaxRows
    /\ sort_order = "Descending"
    /\ At(formatted_rows, 0).id # 0
    /\ 0 \in DOMAIN indexed_ids

\* C39: after every snapshot access the identities of the snapshot are
\* exactly the identities of the store, whatever mutations came before,
\* a mutator that removes a row and returns a new one included.
C39_AccessShowsStoreIdentities ==
    (op.name \in {"rebuild", "rows"} /\ ~fault)
        => {formatted_rows[i].id : i \in 1..Len(formatted_rows)} = DOMAIN rows

\* C40: every call of add_modify_row, with or without a threshold,
\* completes without a fault and leaves the counter one higher than it
\* found it, or at zero when the call reached the threshold: the increment
\* never leaves the range of the counter.
C40_CounterNeverOverflows ==
    [][op'.name \in AllKinds
        => /\ ~fault'
           /\ reload_count' = IF increment_count_result(Table) THEN 0
                               ELSE reload_count + 1]_vars
====
